---- MODULE Spec2Model ----
(***************************************************************************)
(* Model of mlagents/trainers/torch/encoders.py: the Normalizer (running   *)
(* mean / sum of squared deviations), the VectorInput wrapper that owns an *)
(* optional Normalizer, the convolution / pooling shape arithmetic and the *)
(* visual encoders' precomputed output sizes.                              *)
(*                                                                         *)
(* Tensor arithmetic is modelled exactly: a float is a rational            *)
(* <<numerator, denominator>> in lowest terms, so rounding error is not    *)
(* part of the model.  The value of x / sqrt(v) is kept as its sign and    *)
(* its square, which determines it uniquely.                               *)
(***************************************************************************)
EXTENDS Integers, Sequences, FiniteSets, TLC

VARIABLES
    norm,       \* adapter -> its Normalizer's buffers, or None
    fed,        \* history: adapter -> samples its statistics have absorbed
    calls,      \* history: adapter -> number of non-empty batches absorbed
    last,       \* history: the last call made and what it returned
    shared,     \* the Normalizer two threads use at once
    updPc,      \* position of the thread inside Normalizer.update
    updLocal,   \* that thread's local tensors
    obsPc,      \* position of the thread inside Normalizer.forward
    obsLocal,   \* the buffers that thread has read so far
    committed,  \* history: states of `shared` between whole updates
    enc         \* the last shape computed / visual encoder constructed

vars == <<norm, fed, calls, last, shared, updPc, updLocal, obsPc, obsLocal,
          committed, enc>>

normVars == <<norm, fed, calls, last>>
concVars == <<shared, updPc, updLocal, obsPc, obsLocal, committed>>

----------------------------------------------------------------------------
(* Bounds of the model *)

MaxSteps == 3
MaxBatch == 2
MaxHW == 84
MaxCallHW == 12

(* the observation dimensionality every Normalizer is built with *)
vec_obs_size == 1

Adapters == {"self", "other"}
SampleValues == {-1, 2}
FwdValues == {-100, 0, 100}

(* an optional object: None, or the object itself *)
None == <<>>
Some(x) == <<x>>
The(opt) == opt[1]

----------------------------------------------------------------------------
(* Exact arithmetic *)

Abs(n) == IF n < 0 THEN -n ELSE n

RECURSIVE GCD(_, _)
GCD(a, b) == IF b = 0 THEN a ELSE GCD(b, a % b)

Rat(n, d) ==
    LET s == IF d < 0 THEN -1 ELSE 1
        g == GCD(Abs(n), Abs(d))
    IN  <<(s * n) \div g, (s * d) \div g>>

FromInt(n) == <<n, 1>>
RAdd(p, q) == Rat(p[1] * q[2] + q[1] * p[2], p[2] * q[2])
RSub(p, q) == Rat(p[1] * q[2] - q[1] * p[2], p[2] * q[2])
RMul(p, q) == Rat(p[1] * q[1], p[2] * q[2])
RDiv(p, q) == Rat(p[1] * q[2], p[2] * q[1])
RLess(p, q) == p[1] * q[2] < q[1] * p[2]
RLeq(p, q) == p[1] * q[2] <= q[1] * p[2]
RSign(p) == IF p[1] > 0 THEN 1 ELSE IF p[1] < 0 THEN -1 ELSE 0

(* vectors of length vec_obs_size, and batches (sequences of vectors) *)
Dims == 1..vec_obs_size
Zeros == [j \in Dims |-> FromInt(0)]
Ones == [j \in Dims |-> FromInt(1)]

RECURSIVE SeqsUpTo(_, _)
SeqsUpTo(S, n) ==
    IF n = 0 THEN {<<>>}
    ELSE LET shorter == SeqsUpTo(S, n - 1)
         IN  shorter \cup {Append(s, x) : s \in {t \in shorter : Len(t) = n - 1}, x \in S}

Samples == [Dims -> {FromInt(v) : v \in SampleValues}]
Batches == SeqsUpTo(Samples, MaxBatch)
FwdSamples == [Dims -> {FromInt(v) : v \in FwdValues}]
FwdBatches == {<<x>> : x \in FwdSamples}

(* tensor.sum(0): the sum over the batch axis, an empty batch summing to 0 *)
RECURSIVE SumRows(_)
SumRows(rows) ==
    IF rows = <<>> THEN Zeros
    ELSE LET rest == SumRows(Tail(rows))
         IN  [j \in Dims |-> RAdd(Head(rows)[j], rest[j])]

----------------------------------------------------------------------------
(* Normalizer *)

(* __init__: normalization_steps = 1, running_mean = 0, running_variance = 1 *)
NormalizerInit ==
    [normalization_steps |-> 1, running_mean |-> Zeros, running_variance |-> Ones]

(* a real number s * sqrt(q), kept as its sign s and its square q; the      *)
(* square of +-inf is written 1/0 and nan has the square 0/0                *)
Inf == <<1, 0>>
NaN == [sign |-> 0, sq |-> <<0, 0>>]
IntReal(k) == [sign |-> RSign(FromInt(k)), sq |-> FromInt(k * k)]
SqGreater(sq, m) == sq = Inf \/ RLess(FromInt(m), sq)
SqLess(sq, m) == sq # Inf /\ RLess(sq, FromInt(m))
RealLess(y, k) ==
    IF k <= 0 THEN y.sign = -1 /\ SqGreater(y.sq, k * k)
    ELSE y.sign <= 0 \/ SqLess(y.sq, k * k)
RealGreater(y, k) ==
    IF k >= 0 THEN y.sign = 1 /\ SqGreater(y.sq, k * k)
    ELSE y.sign >= 0 \/ SqLess(y.sq, k * k)

(* d / torch.sqrt(v): sqrt of a negative is nan, x / 0 is +-inf, 0 / 0 is nan *)
DivSqrt(d, v) ==
    IF RSign(v) < 0 THEN NaN
    ELSE IF RSign(v) = 0
         THEN IF RSign(d) = 0 THEN NaN ELSE [sign |-> RSign(d), sq |-> Inf]
         ELSE [sign |-> RSign(d), sq |-> RDiv(RMul(d, d), v)]

(* torch.clamp(y, lo, hi); nan stays nan *)
\* variant: the clamp left out
ClampNone(y, lo, hi) == y
Clamp(y, lo, hi) ==
    IF y = NaN THEN NaN
    ELSE IF RealLess(y, lo) THEN IntReal(lo)
    ELSE IF RealGreater(y, hi) THEN IntReal(hi)
    ELSE y

(* forward, lines 17-24 *)
Forward(n, inputs) ==
    [i \in 1..Len(inputs) |->
        [j \in Dims |->
            Clamp(DivSqrt(RSub(inputs[i][j], n.running_mean[j]),
                          RDiv(n.running_variance[j], FromInt(n.normalization_steps))),
                  -5, 5)]]

(* update, lines 26-36: the local tensors *)
\* variant: the step count off by one
TotalNewStepsOff(n, vector_input) == n.normalization_steps + Len(vector_input) - 1
TotalNewSteps(n, vector_input) == n.normalization_steps + Len(vector_input)

InputToOldMean(n, vector_input) ==
    [i \in 1..Len(vector_input) |->
        [j \in Dims |-> RSub(vector_input[i][j], n.running_mean[j])]]

NewMean(n, vector_input) ==
    LET total_new_steps == TotalNewSteps(n, vector_input)
        input_to_old_mean == InputToOldMean(n, vector_input)
        scaled == [i \in 1..Len(vector_input) |->
                      [j \in Dims |-> RDiv(input_to_old_mean[i][j], FromInt(total_new_steps))]]
        s == SumRows(scaled)
    IN  [j \in Dims |-> RAdd(n.running_mean[j], s[j])]

InputToNewMean(n, vector_input) ==
    LET new_mean == NewMean(n, vector_input)
    IN  [i \in 1..Len(vector_input) |->
            [j \in Dims |-> RSub(vector_input[i][j], new_mean[j])]]

\* variant: the squared deviation from the old mean alone
NewVarianceOldOnly(n, vector_input) ==
    LET input_to_old_mean == InputToOldMean(n, vector_input)
        s == SumRows([i \in 1..Len(vector_input) |->
                 [j \in Dims |-> RMul(input_to_old_mean[i][j], input_to_old_mean[i][j])]])
    IN  [j \in Dims |-> RAdd(n.running_variance[j], s[j])]
\* variant: the increment subtracted
NewVarianceFlipped(n, vector_input) ==
    LET input_to_old_mean == InputToOldMean(n, vector_input)
        input_to_new_mean == InputToNewMean(n, vector_input)
        s == SumRows([i \in 1..Len(vector_input) |->
                 [j \in Dims |-> RMul(input_to_new_mean[i][j], input_to_old_mean[i][j])]])
    IN  [j \in Dims |-> RSub(n.running_variance[j], s[j])]
NewVariance(n, vector_input) ==
    LET input_to_old_mean == InputToOldMean(n, vector_input)
        input_to_new_mean == InputToNewMean(n, vector_input)
        s == SumRows([i \in 1..Len(vector_input) |->
                 [j \in Dims |-> RMul(input_to_new_mean[i][j], input_to_old_mean[i][j])]])
    IN  [j \in Dims |-> RAdd(n.running_variance[j], s[j])]

(* update, lines 26-40, run without interruption *)
Update(n, vector_input) ==
    [normalization_steps |-> TotalNewSteps(n, vector_input),
     running_mean |-> NewMean(n, vector_input),
     running_variance |-> NewVariance(n, vector_input)]

(* copy_from, lines 42-45 *)
\* variant: running_variance not copied
CopyFromNoVariance(n, other_normalizer) ==
    [normalization_steps |-> other_normalizer.normalization_steps,
     running_mean |-> other_normalizer.running_mean,
     running_variance |-> n.running_variance]
CopyFrom(n, other_normalizer) ==
    [normalization_steps |-> other_normalizer.normalization_steps,
     running_mean |-> other_normalizer.running_mean,
     running_variance |-> other_normalizer.running_variance]

----------------------------------------------------------------------------------------------------------------------------------------------
(* The calls a program makes on two VectorInput objects and on the          *)
(* Normalizers they own.                                                    *)

Call(op, self, other, inputs, ret, raised) ==
    [op |-> op, self |-> self, other |-> other, inputs |-> inputs, ret |-> ret,
     raised |-> raised]

(* VectorInput.__init__, lines 92-96, for each of the two objects *)
InitNorm ==
    /\ norm \in [Adapters -> {None, Some(NormalizerInit)}]
    /\ fed = [a \in Adapters |-> <<>>]
    /\ calls = [a \in Adapters |-> 0]
    /\ last = Call("init", "", "", <<>>, <<>>, "")

Absorb(a, vector_input) ==
    /\ The(norm[a]).normalization_steps + Len(vector_input) <= MaxSteps
    /\ norm' = [norm EXCEPT ![a] = Some(Update(The(norm[a]), vector_input))]
    /\ fed' = [fed EXCEPT ![a] = fed[a] \o vector_input]
    /\ calls' = [calls EXCEPT ![a] = IF vector_input = <<>> THEN @ ELSE @ + 1]

Pull(a, b) ==
    /\ norm' = [norm EXCEPT ![a] = Some(CopyFrom(The(norm[a]), The(norm[b])))]
    /\ fed' = [fed EXCEPT ![a] = fed[b]]
    /\ calls' = [calls EXCEPT ![a] = calls[b]]

(* Normalizer.update called on the Normalizer object itself *)
NormalizerUpdate(a, vector_input) ==
    /\ norm[a] # None
    /\ Absorb(a, vector_input)
    /\ last' = Call("Normalizer.update", a, "", <<>>, <<>>, "")
    /\ UNCHANGED <<concVars, enc>>

(* Normalizer.copy_from *)
NormalizerCopyFrom(a, b) ==
    /\ norm[a] # None /\ norm[b] # None
    /\ Pull(a, b)
    /\ last' = Call("Normalizer.copy_from", a, b, <<>>, <<>>, "")
    /\ UNCHANGED <<concVars, enc>>

(* Normalizer.forward *)
NormalizerForward(a, inputs) ==
    /\ norm[a] # None
    /\ last' = Call("Normalizer.forward", a, "", inputs, Forward(The(norm[a]), inputs), "")
    /\ UNCHANGED <<norm, fed, calls, concVars, enc>>

(* VectorInput.forward, lines 98-101 *)
VectorInputForward(a, inputs) ==
    /\ last' = Call("forward", a, "", inputs,
                    IF norm[a] # None THEN Forward(The(norm[a]), inputs) ELSE inputs, "")
    /\ UNCHANGED <<norm, fed, calls, concVars, enc>>

(* VectorInput.copy_normalization, lines 103-105; copy_from on a missing   *)
(* Normalizer would raise AttributeError                                    *)
\* variant: only self's normalizer tested
CopyNormalizationGuardSelfOnly(self_normalizer, other_normalizer) ==
    self_normalizer # None
CopyNormalizationGuard(self_normalizer, other_normalizer) ==
    self_normalizer # None /\ other_normalizer # None

CopyNormalization(a, b) ==
    /\ IF CopyNormalizationGuard(norm[a], norm[b])
       THEN IF norm[a] = None \/ norm[b] = None
            THEN /\ last' = Call("copy_normalization", a, b, <<>>, <<>>, "AttributeError")
                 /\ UNCHANGED <<norm, fed, calls>>
            ELSE /\ Pull(a, b)
                 /\ last' = Call("copy_normalization", a, b, <<>>, <<>>, "")
       ELSE /\ last' = Call("copy_normalization", a, b, <<>>, <<>>, "")
            /\ UNCHANGED <<norm, fed, calls>>
    /\ UNCHANGED <<concVars, enc>>

(* VectorInput.update_normalization, lines 107-109 *)
UpdateNormalization(a, inputs) ==
    /\ IF norm[a] # None
       THEN Absorb(a, inputs)
       ELSE UNCHANGED <<norm, fed, calls>>
    /\ last' = Call("update_normalization", a, "", <<>>, <<>>, "")
    /\ UNCHANGED <<concVars, enc>>

NextNorm ==
    \/ \E a \in Adapters, b \in Batches : NormalizerUpdate(a, b)
    \/ \E a \in Adapters, b \in Adapters : NormalizerCopyFrom(a, b)
    \/ \E a \in Adapters, x \in FwdBatches : NormalizerForward(a, x)
    \/ \E a \in Adapters, x \in FwdBatches : VectorInputForward(a, x)
    \/ \E a \in Adapters, b \in Adapters : CopyNormalization(a, b)
    \/ \E a \in Adapters, b \in Batches : UpdateNormalization(a, b)

(* the parts of the state each specification leaves alone *)
IdleNorm ==
    /\ norm = [a \in Adapters |-> None]
    /\ fed = [a \in Adapters |-> <<>>]
    /\ calls = [a \in Adapters |-> 0]
    /\ last = Call("init", "", "", <<>>, <<>>, "")

IdleConc ==
    /\ shared = NormalizerInit
    /\ updPc = "idle"
    /\ updLocal = <<>>
    /\ obsPc = "idle"
    /\ obsLocal = <<>>
    /\ committed = {NormalizerInit}

NoEnc ==
    [kind |-> "none", height |-> 0, width |-> 0, args |-> <<>>, ret |-> <<>>,
     h_size |-> 0, out |-> 0, layers |-> <<>>, flat |-> <<>>, raised |-> ""]

IdleEnc == enc = NoEnc

Init == InitNorm /\ IdleConc /\ IdleEnc
Next == NextNorm
Spec == Init /\ [][Next]_vars

----------------------------------------------------------------------------
(* One thread inside Normalizer.update while another is inside             *)
(* Normalizer.forward on the same object.  Each tensor operation is one    *)
(* step; the three copy_ calls of lines 38-40 are three steps.             *)

(* lines 27-36: the new values, held in local tensors *)
UpdCompute(vector_input) ==
    /\ updPc = "idle"
    /\ shared.normalization_steps + Len(vector_input) <= MaxSteps
    /\ updLocal' = Some(Update(shared, vector_input))
    /\ updPc' = "computed"
    /\ UNCHANGED <<shared, obsPc, obsLocal, committed, normVars, enc>>

(* line 38 *)
UpdWriteMean ==
    /\ updPc = "computed"
    /\ shared' = [shared EXCEPT !.running_mean = The(updLocal).running_mean]
    /\ updPc' = "wrote_mean"
    /\ UNCHANGED <<updLocal, obsPc, obsLocal, committed, normVars, enc>>

(* line 39 *)
UpdWriteVariance ==
    /\ updPc = "wrote_mean"
    /\ shared' = [shared EXCEPT !.running_variance = The(updLocal).running_variance]
    /\ updPc' = "wrote_variance"
    /\ UNCHANGED <<updLocal, obsPc, obsLocal, committed, normVars, enc>>

(* line 40, after which update returns *)
UpdWriteSteps ==
    /\ updPc = "wrote_variance"
    /\ shared' = [shared EXCEPT !.normalization_steps = The(updLocal).normalization_steps]
    /\ updPc' = "idle"
    /\ updLocal' = <<>>
    /\ committed' = committed \cup {shared'}
    /\ UNCHANGED <<obsPc, obsLocal, normVars, enc>>

(* line 19: inputs - self.running_mean *)
ObsReadMean(inputs) ==
    /\ obsPc = "idle"
    /\ obsLocal' = Some([inputs |-> inputs, normalization_steps |-> 0,
                         running_mean |-> shared.running_mean,
                         running_variance |-> Zeros, ret |-> <<>>])
    /\ obsPc' = "read_mean"
    /\ UNCHANGED <<shared, updPc, updLocal, committed, normVars, enc>>

(* lines 18-23: running_variance / normalization_steps, sqrt, divide, clamp *)
ObsReadVariance ==
    /\ obsPc = "read_mean"
    /\ LET seen == [normalization_steps |-> shared.normalization_steps,
                    running_mean |-> The(obsLocal).running_mean,
                    running_variance |-> shared.running_variance]
       IN  obsLocal' = Some([The(obsLocal) EXCEPT
                                !.normalization_steps = seen.normalization_steps,
                                !.running_variance = seen.running_variance,
                                !.ret = Forward(seen, The(obsLocal).inputs)])
    /\ obsPc' = "done"
    /\ UNCHANGED <<shared, updPc, updLocal, committed, normVars, enc>>

(* line 24 *)
ObsReturn ==
    /\ obsPc = "done"
    /\ obsPc' = "idle"
    /\ obsLocal' = <<>>
    /\ UNCHANGED <<shared, updPc, updLocal, committed, normVars, enc>>

NextConc ==
    \/ \E b \in Batches : UpdCompute(b)
    \/ UpdWriteMean
    \/ UpdWriteVariance
    \/ UpdWriteSteps
    \/ \E x \in FwdBatches : ObsReadMean(x)
    \/ ObsReadVariance
    \/ ObsReturn

InitConc == IdleNorm /\ IdleConc /\ IdleEnc
SpecConc == InitConc /\ [][NextConc]_vars

----------------------------------------------------------------------------
(* Shape arithmetic *)

(* a kernel_size argument: <<k>> for an int, <<kh, kw>> for a tuple *)
KernelPair(kernel_size) ==
    IF Len(kernel_size) = 2 THEN kernel_size
    ELSE <<kernel_size[1], kernel_size[1]>>

(* conv_output_shape, lines 48-76; floor(x / stride + 1) for a stride > 0 *)
ConvAxis(size, k, stride, padding, dilation) ==
    ((size + (2 * padding) - (dilation * (k - 1)) - 1) \div stride) + 1

ConvOutputShape(h_w, kernel_size, stride, padding, dilation) ==
    LET ks == KernelPair(kernel_size)
    IN  <<ConvAxis(h_w[1], ks[1], stride, padding, dilation),
          ConvAxis(h_w[2], ks[2], stride, padding, dilation)>>

(* pool_out_shape, lines 79-88 *)
\* variant: the + 1 left out
PoolOutShapeNoPlusOne(h_w, kernel_size) ==
    <<(h_w[1] - kernel_size) \div 2, (h_w[2] - kernel_size) \div 2>>
PoolOutShape(h_w, kernel_size) ==
    <<(h_w[1] - kernel_size) \div 2 + 1, (h_w[2] - kernel_size) \div 2 + 1>>

----------------------------------------------------------------------------
(* The layers the encoders are built from, by the shape of their output.   *)
(* A tensor shape is <<channels, height, width>>; <<>> is a raised error.   *)

Layer(type, in_channels, out_channels, kernel, stride, padding) ==
    [type |-> type, in_channels |-> in_channels, out_channels |-> out_channels,
     kernel |-> kernel, stride |-> stride, padding |-> padding]

(* nn.Conv2d(in, out, [k, k], [s, s], padding) applied to a tensor *)
Conv2dShape(layer, shape) ==
    LET h == (shape[2] + 2 * layer.padding - (layer.kernel - 1) - 1) \div layer.stride + 1
        w == (shape[3] + 2 * layer.padding - (layer.kernel - 1) - 1) \div layer.stride + 1
    IN  IF shape[1] # layer.in_channels \/ h <= 0 \/ w <= 0 THEN <<>>
        ELSE <<layer.out_channels, h, w>>

(* nn.MaxPool2d([k, k], [s, s]) applied to a tensor *)
MaxPool2dShape(layer, shape) ==
    LET h == (shape[2] - (layer.kernel - 1) - 1) \div layer.stride + 1
        w == (shape[3] - (layer.kernel - 1) - 1) \div layer.stride + 1
    IN  IF h <= 0 \/ w <= 0 THEN <<>> ELSE <<shape[1], h, w>>

(* ResNetBlock, lines 167-183: input_tensor + layers(input_tensor) *)
ResNetBlockShape(layer, shape) ==
    LET conv == Layer("Conv2d", layer.in_channels, layer.in_channels, 3, 1, 1)
        first == Conv2dShape(conv, shape)
        second == IF first = <<>> THEN <<>> ELSE Conv2dShape(conv, first)
    IN  IF second = shape THEN shape ELSE <<>>

LayerShape(layer, shape) ==
    IF shape = <<>> THEN <<>>
    ELSE CASE layer.type = "Conv2d" -> Conv2dShape(layer, shape)
           [] layer.type = "MaxPool2d" -> MaxPool2dShape(layer, shape)
           [] layer.type = "ResNetBlock" -> ResNetBlockShape(layer, shape)
           [] OTHER -> shape

RECURSIVE Sequential(_, _)
Sequential(layers, shape) ==
    IF layers = <<>> THEN shape
    ELSE Sequential(Tail(layers), LayerShape(Head(layers), shape))

----------------------------------------------------------------------------
(* Visual encoders *)

Enc(kind, height, width, args, ret, h_size, out, layers, flat, raised) ==
    [kind |-> kind, height |-> height, width |-> width, args |-> args, ret |-> ret,
     h_size |-> h_size, out |-> out, layers |-> layers, flat |-> flat,
     raised |-> raised]

(* SimpleVisualEncoder.__init__ and output_size, lines 113-130 *)
SimpleFinalFlat(height, width) ==
    LET conv_1_hw == ConvOutputShape(<<height, width>>, <<8>>, 4, 0, 1)
        conv_2_hw == ConvOutputShape(conv_1_hw, <<4>>, 2, 0, 1)
    IN  conv_2_hw[1] * conv_2_hw[2] * 32

\* variant: h_size returned
SimpleOutputSizeHSize(h_size, final_flat) == h_size
SimpleOutputSize(h_size, final_flat) == final_flat

(* NatureVisualEncoder.__init__ and output_size, lines 139-159 *)
NatureFinalFlat(height, width) ==
    LET conv_1_hw == ConvOutputShape(<<height, width>>, <<8>>, 4, 0, 1)
        conv_2_hw == ConvOutputShape(conv_1_hw, <<4>>, 2, 0, 1)
        conv_3_hw == ConvOutputShape(conv_2_hw, <<3>>, 1, 0, 1)
    IN  conv_3_hw[1] * conv_3_hw[2] * 64

NatureOutputSize(h_size, final_flat) == final_flat

(* ResNetVisualEncoder.__init__, lines 187-202: the loop over n_channels *)
n_channels == <<16, 32, 32>>
n_blocks == 2

RECURSIVE ResNetBuild(_, _, _, _)
ResNetBuild(stack, last_channel, h_w, layers) ==
    IF stack > Len(n_channels)
    THEN [layers |-> Append(layers, Layer("Swish", 0, 0, 0, 0, 0)),
          output_size |-> n_channels[Len(n_channels)] * h_w[1] * h_w[2]]
    ELSE LET channel == n_channels[stack]
             blocks == [b \in 1..n_blocks |-> Layer("ResNetBlock", channel, channel, 3, 1, 1)]
         IN  ResNetBuild(stack + 1, channel, PoolOutShape(h_w, 3),
                         layers
                           \o <<Layer("Conv2d", last_channel, channel, 3, 1, 1),
                                Layer("MaxPool2d", 0, 0, 3, 2, 0)>>
                           \o blocks)

(* ResNetVisualEncoder.forward, lines 207-211: the width of each row of     *)
(* hidden.view(batch_size, -1), or <<>> when a layer raises                 *)
ResNetFlat(layers, visual_obs_shape) ==
    LET hidden == Sequential(layers, visual_obs_shape)
    IN  IF hidden = <<>> THEN <<>> ELSE <<hidden[1] * hidden[2] * hidden[3]>>

Kernels == {<<1>>, <<3>>, <<4>>, <<8>>, <<8, 4>>}
Strides == {1, 2, 4}
Paddings == {0, 1}
Dilations == {1, 2}
PoolKernels == {2, 3}
Channels == {1, 3}
OutputSizes == {128, 256}

(* the height and width a caller is about to pass on *)
Pending(height, width) ==
    Enc("args", height, width, <<>>, <<>>, 0, 0, <<>>, <<>>, "")

CallConvOutputShape(kernel_size, stride, padding, dilation) ==
    /\ enc.kind = "args"
    /\ enc.height <= MaxCallHW /\ enc.width <= MaxCallHW
    /\ enc' = Enc("conv_output_shape", enc.height, enc.width,
                  <<stride, padding, dilation>> \o kernel_size,
                  ConvOutputShape(<<enc.height, enc.width>>, kernel_size, stride,
                                  padding, dilation),
                  0, 0, <<>>, <<>>, "")
    /\ UNCHANGED <<normVars, concVars>>

CallPoolOutShape(kernel_size) ==
    /\ enc.kind = "args"
    /\ enc.height <= MaxCallHW /\ enc.width <= MaxCallHW
    /\ enc' = Enc("pool_out_shape", enc.height, enc.width, <<kernel_size>>,
                  PoolOutShape(<<enc.height, enc.width>>, kernel_size),
                  0, 0, <<>>, <<>>, "")
    /\ UNCHANGED <<normVars, concVars>>

NewSimpleVisualEncoder(initial_channels, output_size) ==
    /\ enc.kind = "args"
    /\ enc' = Enc("SimpleVisualEncoder", enc.height, enc.width,
                  <<initial_channels, output_size>>, <<>>, output_size,
                  SimpleOutputSize(output_size, SimpleFinalFlat(enc.height, enc.width)),
                  <<>>, <<>>, "")
    /\ UNCHANGED <<normVars, concVars>>

NewNatureVisualEncoder(initial_channels, output_size) ==
    /\ enc.kind = "args"
    /\ enc' = Enc("NatureVisualEncoder", enc.height, enc.width,
                  <<initial_channels, output_size>>, <<>>, output_size,
                  NatureOutputSize(output_size, NatureFinalFlat(enc.height, enc.width)),
                  <<>>, <<>>, "")
    /\ UNCHANGED <<normVars, concVars>>

NewResNetVisualEncoder(initial_channels) ==
    /\ enc.kind = "args"
    /\ LET built == ResNetBuild(1, initial_channels, <<enc.height, enc.width>>, <<>>)
       IN  enc' = Enc("ResNetVisualEncoder", enc.height, enc.width, <<initial_channels>>,
                      <<>>, 0, built.output_size, built.layers, <<>>, "")
    /\ UNCHANGED <<normVars, concVars>>

(* forward on an observation of the size the encoder was built for *)
ResNetForward ==
    /\ enc.kind = "ResNetVisualEncoder"
    /\ LET flat == ResNetFlat(enc.layers, <<enc.args[1], enc.height, enc.width>>)
       IN  enc' = [enc EXCEPT !.kind = "ResNetVisualEncoder.forward",
                              !.flat = flat,
                              !.raised = IF flat = <<>> THEN "RuntimeError" ELSE ""]
    /\ UNCHANGED <<normVars, concVars>>

NextShape ==
    \/ \E k \in Kernels, s \in Strides, p \in Paddings, d \in Dilations :
          CallConvOutputShape(k, s, p, d)
    \/ \E k \in PoolKernels : CallPoolOutShape(k)
    \/ \E c \in Channels, o \in OutputSizes : NewSimpleVisualEncoder(c, o)
    \/ \E c \in Channels, o \in OutputSizes : NewNatureVisualEncoder(c, o)
    \/ \E c \in Channels : NewResNetVisualEncoder(c)
    \/ ResNetForward

InitShape ==
    /\ IdleNorm /\ IdleConc
    /\ \E h \in 1..MaxHW, w \in 1..MaxHW : enc = Pending(h, w)
SpecShape == InitShape /\ [][NextShape]_vars

----------------------------------------------------------------------------
(* Properties *)

Present == {a \in Adapters : norm[a] # None}
Stats(a) == The(norm[a])

(* C1: Normalizer.update replaces running_mean, running_variance and        *)
(* normalization_steps atomically: the three buffers a concurrent forward   *)
(* on the same object has read are together one of the states the object    *)
(* had between updates, or the state the running update is about to leave.  *)
C1_UpdateAtomic ==
    obsPc = "done" =>
        LET seen == [normalization_steps |-> The(obsLocal).normalization_steps,
                     running_mean |-> The(obsLocal).running_mean,
                     running_variance |-> The(obsLocal).running_variance]
        IN  seen \in committed \cup (IF updPc # "idle" THEN {The(updLocal)} ELSE {})

(* C2: every entry of running_variance is >= 0 in every reachable state,    *)
(* after construction and after any sequence of update and copy_from calls. *)
C2_VarianceNonNegative ==
    \A a \in Present : \A j \in Dims : RLeq(FromInt(0), Stats(a).running_variance[j])

C2_Witness ==
    /\ last.op = "Normalizer.update"
    /\ calls[last.self] >= 2
    /\ RLess(FromInt(1), Stats(last.self).running_variance[1])

(* C3: normalization_steps is 1 at construction, is >= 1 in every reachable *)
(* state, and an update with a batch of n samples sets it to its previous   *)
(* value plus n.                                                            *)
C3_StepCount ==
    /\ \A a \in Present : Stats(a).normalization_steps = 1
    /\ [](\A a \in Present : Stats(a).normalization_steps >= 1)
    /\ [][\A a \in Adapters :
            (/\ last'.op \in {"Normalizer.update", "update_normalization"}
             /\ last'.self = a
             /\ norm[a] # None)
                => \E b \in Batches :
                     /\ fed'[a] = fed[a] \o b
                     /\ The(norm'[a]).normalization_steps
                            = The(norm[a]).normalization_steps + Len(b)]_vars

C3_Witness ==
    /\ last.op = "Normalizer.update"
    /\ Stats(last.self).normalization_steps = 3
    /\ calls[last.self] = 1

(* C4: from the same state, the same samples in the same order give the     *)
(* same normalization_steps, running_mean and running_variance /            *)
(* normalization_steps whether they are fed in one update call or split     *)
(* across several, for every split point.                                   *)
C4_SplitInvariant ==
    LET Same(m, n) ==
            /\ m.normalization_steps = n.normalization_steps
            /\ m.running_mean = n.running_mean
            /\ \A j \in Dims :
                 RDiv(m.running_variance[j], FromInt(m.normalization_steps))
                   = RDiv(n.running_variance[j], FromInt(n.normalization_steps))
    IN  \A a \in Present : \A b \in Present :
            fed[a] = fed[b] => Same(Stats(a), Stats(b))

C4_Witness ==
    /\ Present = Adapters
    /\ fed["self"] = fed["other"]
    /\ Len(fed["self"]) >= 2
    /\ calls["self"] = 1
    /\ calls["other"] = Len(fed["other"])
    /\ last.op = "Normalizer.update"

(* C6: after a.copy_from(b), a's three buffers equal b's, b is unchanged,   *)
(* and a.forward(x) = b.forward(x) for every input x.                       *)
C6_CopyFrom ==
    [][last'.op = "Normalizer.copy_from" =>
          LET a == last'.self
              b == last'.other
          IN  /\ The(norm'[a]).normalization_steps = The(norm[b]).normalization_steps
              /\ The(norm'[a]).running_mean = The(norm[b]).running_mean
              /\ The(norm'[a]).running_variance = The(norm[b]).running_variance
              /\ norm'[b] = norm[b]
              /\ \A x \in FwdBatches :
                   Forward(The(norm'[a]), x) = Forward(The(norm'[b]), x)]_vars

C6_Witness ==
    /\ last.op = "Normalizer.copy_from"
    /\ last.self # last.other
    /\ Len(fed[last.self]) >= 2
    /\ norm[last.self] = norm[last.other]

(* C7: in every reachable state forward returns, for every input element,   *)
(* a value within [-5, 5], and leaves the three buffers unchanged.          *)
C7_ForwardClamped ==
    /\ [](last.op = "Normalizer.forward" =>
            \A i \in 1..Len(last.ret) : \A j \in Dims :
                /\ last.ret[i][j] # NaN
                /\ last.ret[i][j].sq # Inf
                /\ RLeq(last.ret[i][j].sq, FromInt(25)))
    /\ [][last'.op = "Normalizer.forward" => norm' = norm]_vars

C7_Witness ==
    /\ last.op = "Normalizer.forward"
    /\ fed[last.self] # <<>>
    /\ last.ret[1][1] = IntReal(-5)

(* C8: copy_normalization changes state only when both VectorInputs own a   *)
(* Normalizer, and then does self.normalizer.copy_from(other.normalizer);   *)
(* otherwise it raises nothing and leaves both, Normalizers included,       *)
(* unchanged.                                                               *)
C8_CopyNormalization ==
    [][\A a \in Adapters : \A b \in Adapters :
          (last'.op = "copy_normalization" /\ last'.self = a /\ last'.other = b) =>
              /\ last'.raised = ""
              /\ IF norm[a] # None /\ norm[b] # None
                 THEN norm' = [norm EXCEPT ![a] = Some(CopyFrom(The(norm[a]), The(norm[b])))]
                 ELSE norm' = norm]_vars

C8_Witness ==
    /\ last.op = "copy_normalization"
    /\ norm[last.self] # None
    /\ norm[last.other] = None
    /\ fed[last.self] # <<>>

(* C5: conv_output_shape and pool_out_shape raise a ConfigurationError      *)
(* whenever a computed axis is <= 0; they never return a non-positive size. *)
C5_NonPositiveRaises ==
    enc.kind \in {"conv_output_shape", "pool_out_shape"} =>
        \/ enc.raised = "ConfigurationError"
        \/ enc.ret[1] > 0 /\ enc.ret[2] > 0

(* C9: ResNetVisualEncoder's output_size is 32 * finalH * finalW after      *)
(* three rounds of floor((size - 3) / 2) + 1, and it is the width of the    *)
(* flattened rows forward produces for every input forward accepts.         *)
C9_ResNetOutputSize ==
    LET P(x) == (x - 3) \div 2 + 1
    IN  /\ enc.kind \in {"ResNetVisualEncoder", "ResNetVisualEncoder.forward"} =>
              enc.out = 32 * P(P(P(enc.height))) * P(P(P(enc.width)))
        /\ (enc.kind = "ResNetVisualEncoder.forward" /\ enc.raised = "") =>
              enc.flat = <<enc.out>>

C9_Witness ==
    /\ enc.kind = "ResNetVisualEncoder.forward"
    /\ enc.raised = ""
    /\ enc.height = 84 /\ enc.width = 84
    /\ enc.flat = <<2592>>

(* C10: SimpleVisualEncoder.output_size() is 32 times the product of the    *)
(* axes after conv(8, stride 4) and conv(4, stride 2); NatureVisualEncoder  *)
(* adds conv(3, stride 1) and has 64 channels; 84 x 84 gives 2592 and 3136, *)
(* whatever the output_size argument.                                       *)
C10_ConvEncoderOutputSize ==
    LET C1(x) == (x - 8) \div 4 + 1
        C2(x) == (x - 4) \div 2 + 1
        C3(x) == (x - 3) + 1
    IN  /\ enc.kind = "SimpleVisualEncoder" =>
              /\ enc.out = 32 * C2(C1(enc.height)) * C2(C1(enc.width))
              /\ (enc.height = 84 /\ enc.width = 84) => enc.out = 2592
        /\ enc.kind = "NatureVisualEncoder" =>
              /\ enc.out = 64 * C3(C2(C1(enc.height))) * C3(C2(C1(enc.width)))
              /\ (enc.height = 84 /\ enc.width = 84) => enc.out = 3136

C10_Witness ==
    /\ enc.kind = "SimpleVisualEncoder"
    /\ enc.height = 84 /\ enc.width = 84
    /\ enc.h_size = 256
    /\ enc.out = 2592

====
